---- MODULE Spec2Model ----
(***************************************************************************)
(* KeyringManager of sysweb3-keyring (keyring-manager.ts) as a state       *)
(* machine: the closure variables of one KeyringManager instance, the      *)
(* records it keeps in the key/value storage, and one action per public    *)
(* operation.  JavaScript object identity is modelled where the code       *)
(* mutates in place: wallet.networks[chain] may be the very object held by *)
(* the module-level initialNetworksState.                                  *)
(***************************************************************************)
EXTENDS Integers, Sequences, FiniteSets, TLC

VARIABLES
    _password,            \* let _password (session password)
    hd,                   \* let hd: SyscoinHDSigner
    main,                 \* let main: SyscoinMainSigner
    wallet,               \* let wallet: IWalletState
    aliasNets,            \* chain -> wallet.networks[chain] is the object of initialNetworksState
    initialNetworksState, \* the module-level default table (mutable through aliases)
    vault,                \* storage record 'vault'      (<<>> when never set)
    vaultKey,             \* storage record 'vault-key'  (<<>> when never set)
    signersKey,           \* storage record 'signers-key'
    keyring,              \* storage record 'keyring'
    signers,              \* storage record 'signers'
    events,               \* events emitted by the last operation
    ret,                  \* the last operation, its arguments and what it returned
    createdVault,         \* history: the account of the last createKeyringVault, while only login/logout followed
    seenIds,              \* history: ids of accounts that existed in wallet.accounts or were returned by addNewAccount
    loggedOut,            \* history: logout was called and no login or createKeyringVault has succeeded since
    tasks,                \* the setSignerNetwork calls in flight: where each is suspended, and its local variables
    start,                \* history: the state in which the first call in flight was started
    ops                   \* number of operations called so far

vars == <<_password, hd, main, wallet, aliasNets, initialNetworksState, vault,
          vaultKey, signersKey, keyring, signers, events, ret, createdVault, seenIds, loggedOut,
          tasks, start, ops>>

-----------------------------------------------------------------------------
(* Bounds of the model: the inputs the operations are called with.         *)

MaxOps == 4

\* the passwords callers pass, and those among them set as the wallet password
Pwds == {"correct-horse", "wrong"}
\* setWalletPassword is also called with no value at all (undefined)
WalletPwds == {"correct-horse", "undefined"}
\* the seed phrases validateSeed is given
Mnemonics == {"seed"}
\* the balances the chain indexer reports
Balances == {0}
\* the accounts web3Wallet.createAccount() can make
RandomAccounts == {1}
Labels == {"Trading"}
Chains == {"syscoin", "ethereum"}
Failures == {"none", "rpc", "indexer"}

-----------------------------------------------------------------------------
(* networks.ts                                                             *)

Net(id, url) == [chainId |-> id, url |-> url]

SysMainnet == Net(57, "https://blockbook.elint.services/")
SysTestnet == Net(5700, "https://blockbook-dev.elint.services/")
EthMainnet == Net(1, "https://mainnet.infura.io/v3/")
EthSysNEVM == Net(57, "https://rpc.syscoin.org")

defaultNetworksState ==
    [syscoin  |-> (57 :> SysMainnet) @@ (5700 :> SysTestnet),
     ethereum |-> (1 :> EthMainnet)
               @@ (42 :> Net(42, "https://kovan.poa.network"))
               @@ (4 :> Net(4, "https://rinkeby.infura.io/v3/"))
               @@ (3 :> Net(3, "https://ropsten.infura.io/v3/"))
               @@ (5 :> Net(5, "https://goerli.infura.io/v3/"))
               @@ (137 :> Net(137, "https://polygon-rpc.com"))
               @@ (80001 :> Net(80001, "https://rpc-mumbai.maticvigil.com"))
               @@ (57 :> EthSysNEVM)
               @@ (5700 :> Net(5700, "https://rpc.tanenbaum.io"))]

NoAddress == [kind |-> "undefined", of |-> "", n |-> 0]
EmptyAddress == [kind |-> "empty", of |-> "", n |-> 0]
NoKey == [enc |-> FALSE, pwd |-> "", kind |-> "empty", of |-> "", n |-> 0]
PendingPromise == -1

Label(text, n) == [text |-> text, n |-> n]

initialActiveAccountState ==
    [id |-> -1, label |-> Label("Account", 1), address |-> EmptyAddress, xpub |-> EmptyAddress,
     xprv |-> NoKey, balances |-> [syscoin |-> 0, ethereum |-> 0]]

\* initialWalletState as it reads now: its networks field is the mutable table
initialWalletState(nets) ==
    [accounts |-> << >>,
     activeAccount |-> initialActiveAccountState,
     networks |-> nets,
     activeNetwork |-> SysMainnet]

-----------------------------------------------------------------------------
(* The inputs the operations are exercised with.                           *)

SwitchInputs == {<<SysTestnet, "syscoin">>, <<EthMainnet, "ethereum">>}
RemoveNetworkInputs == {<<"syscoin", 57>>, <<"ethereum", 1>>}

-----------------------------------------------------------------------------
(* The state one handler threads through its statements: the closure       *)
(* variables, the storage records, the events emitted so far, the error    *)
(* thrown (if any) and what the external collaborators answer during this  *)
(* call (fail: which remote call fails; bal: the balance the indexer       *)
(* reports; rnd: the account web3 creates).                                *)

Cur(fail, bal, rnd) ==
    [password |-> _password, hd |-> hd, main |-> main, wallet |-> wallet,
     aliasNets |-> aliasNets, init |-> initialNetworksState, vault |-> vault,
     vaultKey |-> vaultKey, signersKey |-> signersKey, keyring |-> keyring,
     signers |-> signers, events |-> << >>, thrown |-> "",
     val |-> initialActiveAccountState, out |-> "void", persistError |-> FALSE,
     fail |-> fail, bal |-> bal, rnd |-> rnd]

Quiet == Cur("none", 0, 1)

\* statement sequencing: nothing after a throw runs
Ok(s) == s.thrown = ""
Throw(s, e) == [s EXCEPT !.thrown = e]

Truthy(str) == str \notin {"", "null", "undefined"}

\* typeof v === 'string'
typeofString(v) == v \notin {"null", "undefined"}

NoSigner == [live |-> FALSE, mnemonic |-> "undefined", accountIndex |-> -1]
NoMain == [live |-> FALSE, blockbookURL |-> "undefined"]

\* JSON.stringify / JSON.parse of the wallet: object identity does not survive
JSONstringify(w) == [json |-> w]
JSONparse(v) == v.json
Detached == [c \in Chains |-> FALSE]
Attached == [c \in Chains |-> TRUE]

\* sysweb3-utils getSigners(): signers re-materialised from the 'signers-key' record
getSigners(s) ==
    [_hd   |-> [live |-> TRUE, mnemonic |-> s.signersKey.mnemonic, accountIndex |-> 0],
     _main |-> [live |-> TRUE,
                blockbookURL |-> IF s.signersKey.network = << >> THEN "null"
                                 ELSE s.signersKey.network[1].url]]

emit(s, e) == [s EXCEPT !.events = Append(@, e)]

hasHdMnemonic(s) ==
    IF ~Truthy(s.hd.mnemonic) \/ ~Truthy(s.main.blockbookURL)
    THEN [s EXCEPT !.hd = getSigners(s)._hd, !.main = getSigners(s)._main]
    ELSE s

forgetSigners(s) ==
    [s EXCEPT !.hd = NoSigner, !.main = NoMain,
              !.signersKey = [mnemonic |-> "null", network |-> << >>, isTestnet |-> "false"],
              !.signers = "null"]

isValidPassword(s, pwd) == s.vaultKey = <<pwd>>

checkPasswordWriteAlways(s, pwd) == [s EXCEPT !.password = pwd]

checkPassword(s, pwd) == IF isValidPassword(s, pwd) THEN [s EXCEPT !.password = pwd] ELSE s

isUnlocked(s) ==
    (Truthy(hasHdMnemonic(s).hd.mnemonic) /\ Truthy(s.password)) \/ s.keyring.isUnlocked

_updateLocalStoreWallet(s) == [s EXCEPT !.keyring.wallet = s.wallet]

\* wallet = initialWalletState: the wallet IS the module-level object again
_clearWallet(s) ==
    _updateLocalStoreWallet(
        [s EXCEPT !.wallet = initialWalletState(s.init), !.aliasNets = Attached])

_clearTemporaryLocalKeys(s) ==
    [s EXCEPT !.signersKey = [@ EXCEPT !.mnemonic = "", !.network = <<s.wallet.activeNetwork>>],
              !.password = ""]

\* the Error it returns is recorded in persistError: no caller reads it
_persistWallet(s, password) ==
    IF ~typeofString(password) THEN [s EXCEPT !.persistError = TRUE]
    ELSE [s EXCEPT !.password = password, !.vault = <<JSONstringify(s.wallet)>>]

_notifyUpdate(s) == emit(s, "update")

_fullUpdate(s) == _notifyUpdate(_updateLocalStoreWallet(_persistWallet(s, s.password)))

_updateUnlocked(s) == emit([s EXCEPT !.keyring.isUnlocked = TRUE], "unlock")

\* storage.get('keyring').wallet is always present: the constructor writes it
_unlockWallet(s, password) ==
    LET _wallet == s.keyring.wallet
        s1 == _clearWallet(s)
    IN  _updateLocalStoreWallet(
            [s1 EXCEPT !.wallet = _wallet, !.aliasNets = Detached, !.password = password])

-----------------------------------------------------------------------------
(* Accounts.  s.val is the value the helper just returned.                 *)

Xpub(signer) == [kind |-> "xpub", of |-> signer.mnemonic, n |-> signer.accountIndex]
ReceivingAddress(signer) == [kind |-> "sys", of |-> signer.mnemonic, n |-> signer.accountIndex]
EthAddress(mnemonic) == [kind |-> "eth", of |-> mnemonic, n |-> 0]
EthPrivateKey(mnemonic) == [enc |-> FALSE, pwd |-> "", kind |-> "ethkey", of |-> mnemonic, n |-> 0]
RandomAddress(r) == [kind |-> "random", of |-> "", n |-> r]
RandomPrivateKey(r) == [enc |-> FALSE, pwd |-> "", kind |-> "randomkey", of |-> "", n |-> r]

\* hd.Signer.accounts[hd.Signer.accountIndex].getAccountPrivateKey()
_getEncryptedPrivateKeyFromHd(s) ==
    [enc |-> FALSE, pwd |-> "", kind |-> "zprv", of |-> s.hd.mnemonic, n |-> s.hd.accountIndex]

\* a TypeError when hd is {} or holds no account at its index
canReadPrivateKey(s) == s.hd.live /\ s.hd.accountIndex >= 0

\* CryptoJS.AES.encrypt(message, key): a key that is not a string is read as
\* a WordArray, a TypeError when it is undefined
canEncrypt(s) == typeofString(s.password)

getEncryptedXprv(s) ==
    [_getEncryptedPrivateKeyFromHd(s) EXCEPT !.enc = TRUE, !.pwd = s.password]

\* what _getInitialAccountData reads of createdAccount: it has no
\* receivingAddress when it comes from _getLatestUpdateForSysAccount
Created(balances, xpub, receivingAddress) ==
    [balances |-> balances, xpub |-> xpub, receivingAddress |-> receivingAddress]

_getInitialAccountData(label, signer, createdAccount, xprv) ==
    [id |-> signer.accountIndex,
     label |-> IF label # "" THEN Label(label, 0) ELSE Label("Account", signer.accountIndex + 1),
     balances |-> createdAccount.balances,
     xpub |-> createdAccount.xpub,
     xprv |-> xprv,
     address |-> createdAccount.receivingAddress]

_getLatestUpdateForSysAccount(s) ==
    LET s1 == [s EXCEPT !.hd = getSigners(s)._hd, !.main = getSigners(s)._main]
    IN  IF s.fail = "indexer" THEN Throw(s1, "ChainQueryError")
        ELSE [s1 EXCEPT !.val =
                [id |-> s1.hd.accountIndex, label |-> Label("", 0),
                 balances |-> [syscoin |-> s.bal, ethereum |-> 0],
                 xpub |-> Xpub(s1.hd), xprv |-> NoKey,
                 address |-> ReceivingAddress(s1.hd)]]

_getLatestUpdateForWeb3Accounts(s) ==
    IF s.fail = "indexer" THEN Throw(s, "ChainQueryError")
    ELSE IF s.signersKey.network = << >> THEN Throw(s, "TypeError")
    ELSE [s EXCEPT !.val =
            [id |-> s.wallet.activeAccount.id,
             label |-> Label("Account", s.wallet.activeAccount.id),
             balances |-> [ethereum |-> s.bal, syscoin |-> 0],
             xpub |-> EthAddress(s.signersKey.mnemonic),
             xprv |-> EthPrivateKey(s.signersKey.mnemonic),
             address |-> EthAddress(s.signersKey.mnemonic)]]

\* the createdAccount a latest update makes: neither kind has a receivingAddress
FromLatestUpdate(v) == Created(v.balances, v.xpub, NoAddress)

isSyscoinNetwork(w, chainId) == chainId \in DOMAIN w.networks.syscoin

getLatestUpdateForAccount(s) ==
    LET s1 == _updateLocalStoreWallet(
                  [s EXCEPT !.wallet = s.keyring.wallet, !.aliasNets = Detached])
    IN  IF isSyscoinNetwork(s1.wallet, s1.wallet.activeNetwork.chainId)
        THEN _getLatestUpdateForSysAccount(s1)
        ELSE _getLatestUpdateForWeb3Accounts(s1)

setAccountIndexForDerivedAccount(s, accountId) ==
    IF ~s.hd.live THEN Throw(s, "TypeError")
    ELSE [s EXCEPT !.hd.accountIndex = accountId]

_createMainWallet(s) ==
    LET g  == getSigners(s)
        s1 == [s EXCEPT !.hd = g._hd, !.main = g._main, !.signers = "set"]
        xprv == getEncryptedXprv(s1)
        s2 == IF canEncrypt(s1) THEN _getLatestUpdateForSysAccount(s1)
              ELSE Throw(s1, "TypeError")
        account == _getInitialAccountData("", g._hd, FromLatestUpdate(s2.val), xprv)
    IN  IF Ok(s2) THEN [s2 EXCEPT !.hd.accountIndex = account.id, !.val = account] ELSE s2

withAccount(w, account) ==
    [w EXCEPT !.accounts = (account.id :> account) @@ @, !.activeAccount = account]

-----------------------------------------------------------------------------
(* The public operations, each a function of the handler state.  out is    *)
(* what the handler returns: "value" (the account in val), "error" (an     *)
(* Error object), "true"/"false", "void"; thrown is the error it throws or *)
(* its promise rejects with.                                               *)

Return(s, v) == [s EXCEPT !.val = v, !.out = "value"]
ReturnBoolean(s, b) == [s EXCEPT !.out = IF b THEN "true" ELSE "false"]
ReturnError(s) == [s EXCEPT !.out = "error"]

setWalletPassword(s, pwd) == [s EXCEPT !.password = pwd, !.vaultKey = <<pwd>>]

\* validateMnemonic accepts every phrase of Mnemonics
validateSeed(s, seedphrase) == [s EXCEPT !.signersKey.mnemonic = seedphrase]

createKeyringVault(s) ==
    LET s1 == _createMainWallet(_clearWallet(s))
    IN  IF Ok(s1)
        THEN Return(_fullUpdate([s1 EXCEPT !.wallet = withAccount(@, s1.val),
                                           !.keyring.isUnlocked = TRUE]),
                    s1.val)
        ELSE s1

login(s, password) ==
    IF ~isValidPassword(s, password) THEN ReturnError(checkPassword(s, password))
    ELSE
      LET s1 == _unlockWallet(checkPassword(s, password), password)
          s2 == setAccountIndexForDerivedAccount(s1, s1.wallet.activeAccount.id)
          s3 == IF Ok(s2) THEN _updateLocalStoreWallet(_notifyUpdate(_updateUnlocked(s2)))
                ELSE s2
          s4 == IF Ok(s3) THEN getLatestUpdateForAccount(s3) ELSE s3
      IN  IF Ok(s4) THEN Return(s4, s4.wallet.activeAccount) ELSE s4

logout(s) ==
    LET s1 == _clearTemporaryLocalKeys(s)
        s2 == [s1 EXCEPT !.keyring.isUnlocked = FALSE, !.hd = NoSigner, !.main = NoMain]
    IN  _notifyUpdate(emit(s2, "lock"))

\* delete wallet.accounts[accountId]
removeAccount(s, accountId) ==
    [s EXCEPT !.wallet.accounts = [i \in DOMAIN @ \ {accountId} |-> @[i]]]

\* the guard as written: the error is returned when the password IS valid
forgetMainWallet(s, pwd) ==
    IF isValidPassword(s, pwd) THEN ReturnError(checkPassword(s, pwd))
    ELSE
      LET s1 == forgetSigners(_clearTemporaryLocalKeys(checkPassword(s, pwd)))
      IN  _fullUpdate([s1 EXCEPT !.wallet = initialWalletState(s1.init),
                                 !.aliasNets = Attached])

\* validateSysRpc(url): the testnet flag of the endpoint
validateSysRpc(url) == IF url = SysTestnet.url THEN "true" ELSE "false"

_setSignerByChain(s, network, chain) ==
    LET s1 == [s EXCEPT !.signersKey = [mnemonic |-> s.signersKey.mnemonic,
                                        network |-> <<network>>,
                                        isTestnet |-> "undefined"]]
    IN  IF chain = "syscoin"
        THEN IF s.fail = "rpc" THEN Throw(s1, "RpcError")
             ELSE [s1 EXCEPT !.signersKey.isTestnet = validateSysRpc(network.url)]
        ELSE [s1 EXCEPT !.signersKey.isTestnet = "false"]

_getAccountForNetwork(s, isSyscoinChain) ==
    LET mnemonic == s.signersKey.mnemonic
        network  == s.signersKey.network[1]
        s1 == _fullUpdate([s EXCEPT !.wallet.activeNetwork = network])
    IN  IF isSyscoinChain
        THEN LET g  == getSigners(s1)
                 s2 == [s1 EXCEPT !.hd = g._hd, !.main = g._main, !.signers = "set"]
                 xprv == getEncryptedXprv(s2)
                 s3 == IF ~canEncrypt(s2) THEN Throw(s2, "TypeError")
                       ELSE IF s2.fail = "rpc" THEN Throw(s2, "RpcError")
                       ELSE [s2 EXCEPT !.signersKey =
                                [mnemonic |-> mnemonic, network |-> <<network>>,
                                 isTestnet |-> validateSysRpc(network.url)]]
                 s4 == IF Ok(s3) THEN _getLatestUpdateForSysAccount(s3) ELSE s3
                 account == _getInitialAccountData("", g._hd, FromLatestUpdate(s4.val), xprv)
             IN  IF Ok(s4)
                 THEN [s4 EXCEPT !.hd.accountIndex = account.id, !.val = account]
                 ELSE s4
        ELSE _getLatestUpdateForWeb3Accounts(s1)

\* networks: {...wallet.networks, [chain]: {[network.chainId]: network}}
setSignerNetwork(s, network, chain) ==
    LET s1 == _setSignerByChain(s, network, chain)
        s2 == IF Ok(s1)
              THEN _fullUpdate([s1 EXCEPT !.wallet.networks[chain] = (network.chainId :> network),
                                          !.wallet.activeNetwork = network,
                                          !.aliasNets[chain] = FALSE])
              ELSE s1
        s3 == IF Ok(s2) THEN _setSignerByChain(s2, network, chain) ELSE s2
        s4 == IF Ok(s3) THEN _getAccountForNetwork(s3, chain = "syscoin") ELSE s3
    IN  IF Ok(s4)
        THEN Return(_fullUpdate([s4 EXCEPT !.wallet = withAccount(@, s4.val)]), s4.val)
        ELSE s4

\* _hd.createAccount() on the signer getSigners() just made: the next index
createAccount(signer) == signer.accountIndex + 1

addNewAccount(s, label) ==
    IF s.signersKey.network = << >> THEN Throw(s, "TypeError")
    ELSE
      LET network == s.signersKey.network[1]
          _hd == getSigners(s)._hd
      IN  IF isSyscoinNetwork(s.wallet, network.chainId)
          THEN LET id == createAccount(_hd)
                   signer == [_hd EXCEPT !.accountIndex = id]
                   s1 == getLatestUpdateForAccount(s)
                   s2 == IF Ok(s1) /\ (~canReadPrivateKey(s1) \/ ~canEncrypt(s1))
                         THEN Throw(s1, "TypeError")
                         ELSE s1
                   account == _getInitialAccountData(label, signer, FromLatestUpdate(s2.val),
                                                     getEncryptedXprv(s2))
               IN  IF Ok(s2) THEN Return(s2, [account EXCEPT !.id = id]) ELSE s2
          ELSE LET createdAccount ==
                       Created([syscoin |-> 0, ethereum |-> PendingPromise],
                               RandomAddress(s.rnd), RandomAddress(s.rnd))
                   initialAccount == _getInitialAccountData(label, _hd, createdAccount,
                                                            RandomPrivateKey(s.rnd))
               IN  Return([s EXCEPT !.wallet = withAccount(@, initialAccount)], initialAccount)

\* delete wallet.networks[chain][chainId]: in place, so also in the default
\* table when the wallet still holds that very object
removeNetwork(s, chain, chainId) ==
    LET without(tbl) == [i \in DOMAIN tbl \ {chainId} |-> tbl[i]]
    IN  [s EXCEPT !.wallet.networks[chain] = without(@),
                  !.init[chain] = IF s.aliasNets[chain] THEN without(@) ELSE @]

-----------------------------------------------------------------------------
(* setSignerNetwork as the event loop runs it: the call is suspended at     *)
(* each await of a remote call (validateSysRpc, fetchBackendAccount,        *)
(* getBalance, getUserTransactions) and resumed when the answer arrives;    *)
(* between two such awaits its statements run without interruption.  A      *)
(* task is the record of one call: pc names the await it is suspended at,   *)
(* the other fields are the local variables that live across awaits.        *)

Tasks == {1, 2}

Idle ==
    [pc |-> "idle", network |-> SysMainnet, chain |-> "", mnemonic |-> "", gnetwork |-> SysMainnet,
     signer |-> NoSigner, xprv |-> NoKey, xpub |-> EmptyAddress, id |-> -1]

Suspended(s, l, pc) == [s |-> s, l |-> [l EXCEPT !.pc = pc]]

\* lines 539-542: the first statement of _setSignerByChain
setSignersKeyNetwork(s, network) ==
    [s EXCEPT !.signersKey = [mnemonic |-> s.signersKey.mnemonic, network |-> <<network>>,
                              isTestnet |-> "undefined"]]

\* lines 567-578: the networks and activeNetwork of the wallet, then _fullUpdate
setWalletNetwork(s, network, chain) ==
    _fullUpdate([s EXCEPT !.wallet.networks[chain] = (network.chainId :> network),
                          !.wallet.activeNetwork = network,
                          !.aliasNets[chain] = FALSE])

\* lines 309-316: _getAccountForNetwork up to its branch
enterGetAccountForNetwork(s) ==
    _fullUpdate([s EXCEPT !.wallet.activeNetwork = s.signersKey.network[1]])

\* lines 586-597: the account is stored and made active
storeAccount(s, account) ==
    Return(_fullUpdate([s EXCEPT !.wallet = withAccount(@, account)]), account)

\* from the call to the first await of a remote call
beginSetSignerNetwork(s, l) ==
    LET s1 == setSignersKeyNetwork(s, l.network)
    IN  IF l.chain = "syscoin" THEN Suspended(s1, l, "validateSysRpc 545")
        ELSE LET s2 == setWalletNetwork([s1 EXCEPT !.signersKey.isTestnet = "false"],
                                        l.network, l.chain)
                 s3 == [setSignersKeyNetwork(s2, l.network) EXCEPT !.signersKey.isTestnet = "false"]
                 s4 == enterGetAccountForNetwork(s3)
             IN  Suspended(s4, [l EXCEPT !.mnemonic = s4.signersKey.mnemonic,
                                         !.gnetwork = s4.signersKey.network[1]],
                           "getBalance 238")

\* from the answer of a remote call to the next await, or to the return
resumeSetSignerNetwork(s, l) ==
    CASE l.pc = "validateSysRpc 545" ->
           LET s1 == [s EXCEPT !.signersKey.isTestnet = validateSysRpc(l.network.url)]
               s2 == setWalletNetwork(s1, l.network, l.chain)
           IN  Suspended(setSignersKeyNetwork(s2, l.network), l, "validateSysRpc 545 again")
      [] l.pc = "validateSysRpc 545 again" ->
           LET s1 == [s EXCEPT !.signersKey.isTestnet = validateSysRpc(l.network.url)]
               s2 == enterGetAccountForNetwork(s1)
               g  == getSigners(s2)
               s3 == [s2 EXCEPT !.hd = g._hd, !.main = g._main, !.signers = "set"]
               l1 == [l EXCEPT !.mnemonic = s1.signersKey.mnemonic,
                               !.gnetwork = s1.signersKey.network[1],
                               !.signer = g._hd, !.xprv = getEncryptedXprv(s3)]
           IN  IF canEncrypt(s3) THEN Suspended(s3, l1, "validateSysRpc 331")
               ELSE Suspended(Throw(s3, "TypeError"), l1, "done")
      [] l.pc = "validateSysRpc 331" ->
           LET s1 == [s EXCEPT !.signersKey =
                         [mnemonic |-> l.mnemonic, network |-> <<l.gnetwork>>,
                          isTestnet |-> validateSysRpc(l.gnetwork.url)]]
               s2 == [s1 EXCEPT !.hd = getSigners(s1)._hd, !.main = getSigners(s1)._main]
           IN  Suspended(s2, [l EXCEPT !.xpub = Xpub(s2.hd)], "fetchBackendAccount 361")
      [] l.pc = "fetchBackendAccount 361" ->
           LET account == _getInitialAccountData("", l.signer,
                              Created([syscoin |-> s.bal, ethereum |-> 0], l.xpub, NoAddress),
                              l.xprv)
           IN  IF s.hd.live
               THEN Suspended(storeAccount([s EXCEPT !.hd.accountIndex = account.id], account),
                              l, "done")
               ELSE Suspended(Throw(s, "TypeError"), l, "done")
      [] l.pc = "getBalance 238" ->
           Suspended(s, [l EXCEPT !.id = s.wallet.activeAccount.id], "getUserTransactions 242")
      [] l.pc = "getUserTransactions 242" ->
           LET account == [id |-> l.id, label |-> Label("Account", l.id),
                           balances |-> [ethereum |-> s.bal, syscoin |-> 0],
                           xpub |-> EthAddress(l.mnemonic),
                           xprv |-> EthPrivateKey(l.mnemonic),
                           address |-> EthAddress(l.mnemonic)]
           IN  Suspended(storeAccount(s, account), l, "done")

-----------------------------------------------------------------------------
(* The state machine.                                                      *)

NoArgs == [pwd |-> "", id |-> -1, chain |-> ""]

\* what the caller of the finished operation observes
Outcome(op, args, s) ==
    [op |-> op, args |-> args,
     kind |-> IF s.thrown # "" THEN "throw" ELSE s.out,
     error |-> s.thrown,
     persistFailed |-> s.persistError,
     val |-> IF s.thrown = "" /\ s.out = "value" THEN s.val ELSE initialActiveAccountState]

\* the handler ends in s; created is the new value of the createdVault history
Finish(op, args, s, created) ==
    /\ ops < MaxOps
    /\ ops' = ops + 1
    /\ _password' = s.password
    /\ hd' = s.hd
    /\ main' = s.main
    /\ wallet' = s.wallet
    /\ aliasNets' = s.aliasNets
    /\ initialNetworksState' = s.init
    /\ vault' = s.vault
    /\ vaultKey' = s.vaultKey
    /\ signersKey' = s.signersKey
    /\ keyring' = s.keyring
    /\ signers' = s.signers
    /\ events' = s.events
    /\ ret' = Outcome(op, args, s)
    /\ createdVault' = created
    /\ seenIds' = seenIds \cup DOMAIN s.wallet.accounts
                     \cup (IF op = "addNewAccount" /\ s.thrown = "" THEN {s.val.id} ELSE {})
    /\ loggedOut' = IF op = "logout" THEN TRUE
                    ELSE IF op = "KeyringManager" THEN FALSE
                    ELSE IF op \in {"login", "createKeyringVault"} /\ s.thrown = "" /\ s.out = "value"
                         THEN FALSE
                    ELSE loggedOut
    /\ UNCHANGED <<tasks, start>>

\* the constructor body of KeyringManager, lines 25-55
Init ==
    /\ _password = ""
    /\ hd = NoSigner
    /\ main = NoMain
    /\ wallet = initialWalletState(defaultNetworksState)
    /\ aliasNets = Attached
    /\ initialNetworksState = defaultNetworksState
    /\ vault = << >>
    /\ vaultKey = << >>
    /\ signersKey = [mnemonic |-> "", network |-> <<SysMainnet>>, isTestnet |-> "false"]
    /\ keyring = [wallet |-> initialWalletState(defaultNetworksState), isUnlocked |-> FALSE]
    /\ signers = "unset"
    /\ events = << >>
    /\ ret = [op |-> "KeyringManager", args |-> NoArgs, kind |-> "void", error |-> "",
              persistFailed |-> FALSE, val |-> initialActiveAccountState]
    /\ createdVault = << >>
    /\ seenIds = {}
    /\ loggedOut = FALSE
    /\ tasks = [t \in Tasks |-> Idle]
    /\ start = << >>
    /\ ops = 0

\* a new KeyringManager() over the same storage; fresh: in a new process,
\* where the module-level default table is the literal again
KeyringManager ==
    \E fresh \in BOOLEAN :
      LET nets == IF fresh THEN defaultNetworksState ELSE initialNetworksState
          w == initialWalletState(nets)
      IN  Finish("KeyringManager", NoArgs,
             [Quiet EXCEPT !.password = "", !.hd = NoSigner, !.main = NoMain,
                               !.wallet = w, !.aliasNets = Attached, !.init = nets,
                               !.signersKey = [mnemonic |-> "", network |-> <<w.activeNetwork>>,
                                               isTestnet |-> "false"],
                               !.keyring = [wallet |-> w, isUnlocked |-> FALSE]],
                 << >>)

SetWalletPassword ==
    \E pwd \in WalletPwds :
      Finish("setWalletPassword", [NoArgs EXCEPT !.pwd = pwd],
             setWalletPassword(Quiet, pwd), << >>)

ValidateSeed ==
    \E m \in Mnemonics : Finish("validateSeed", NoArgs,
             validateSeed(Quiet, m), << >>)

CheckPassword ==
    \E pwd \in Pwds :
      Finish("checkPassword", [NoArgs EXCEPT !.pwd = pwd],
             ReturnBoolean(checkPassword(Quiet, pwd), isValidPassword(Quiet, pwd)), << >>)

IsUnlocked == Finish("isUnlocked", NoArgs,
             ReturnBoolean(hasHdMnemonic(Quiet), isUnlocked(Quiet)), << >>)

CreateKeyringVault ==
    \E fail \in Failures \ {"rpc"}, bal \in Balances :
      LET s == createKeyringVault(Cur(fail, bal, 1))
      IN  Finish("createKeyringVault", NoArgs,
             s,
                 IF s.thrown = "" /\ s.vaultKey # << >> /\ s.vaultKey[1] = s.password
                 THEN <<[id |-> s.val.id, pwd |-> s.password]>> ELSE << >>)

Login ==
    \E password \in Pwds, fail \in Failures \ {"rpc"}, bal \in Balances :
      Finish("login", [NoArgs EXCEPT !.pwd = password],
             login(Cur(fail, bal, 1), password),
             createdVault)

Logout == Finish("logout", NoArgs,
             logout(Quiet), createdVault)

RemoveAccount ==
    \E accountId \in DOMAIN wallet.accounts \cup {wallet.activeAccount.id} :
      Finish("removeAccount", [NoArgs EXCEPT !.id = accountId],
             removeAccount(Quiet, accountId), << >>)

ForgetMainWallet ==
    \E pwd \in Pwds :
      Finish("forgetMainWallet", [NoArgs EXCEPT !.pwd = pwd],
             forgetMainWallet(Quiet, pwd), << >>)

GetLatestUpdateForAccount ==
    \E fail \in Failures \ {"rpc"}, bal \in Balances :
      Finish("getLatestUpdateForAccount", NoArgs,
             getLatestUpdateForAccount(Cur(fail, bal, 1)), << >>)

SetSignerNetwork ==
    \E in \in SwitchInputs, fail \in Failures, bal \in Balances :
      Finish("setSignerNetwork", [NoArgs EXCEPT !.id = in[1].chainId, !.chain = in[2]],
             setSignerNetwork(Cur(fail, bal, 1), in[1], in[2]), << >>)

AddNewAccount ==
    \E label \in Labels, fail \in Failures \ {"rpc"}, bal \in Balances, rnd \in RandomAccounts :
      Finish("addNewAccount", NoArgs,
             addNewAccount(Cur(fail, bal, rnd), label), << >>)

RemoveNetwork ==
    \E in \in RemoveNetworkInputs :
      Finish("removeNetwork", [NoArgs EXCEPT !.chain = in[1], !.id = in[2]],
             removeNetwork(Quiet, in[1], in[2]), << >>)

Next ==
    \/ KeyringManager
    \/ SetWalletPassword
    \/ ValidateSeed
    \/ CheckPassword
    \/ IsUnlocked
    \/ CreateKeyringVault
    \/ Login
    \/ Logout
    \/ RemoveAccount
    \/ ForgetMainWallet
    \/ GetLatestUpdateForAccount
    \/ SetSignerNetwork
    \/ AddNewAccount
    \/ RemoveNetwork

Spec == Init /\ [][Next]_vars

-----------------------------------------------------------------------------
(* The same manager with up to two setSignerNetwork calls in flight.       *)

\* the closure variables and the storage after a slice of a call has run
Store(s) ==
    /\ _password' = s.password
    /\ hd' = s.hd
    /\ main' = s.main
    /\ wallet' = s.wallet
    /\ aliasNets' = s.aliasNets
    /\ initialNetworksState' = s.init
    /\ vault' = s.vault
    /\ vaultKey' = s.vaultKey
    /\ signersKey' = s.signersKey
    /\ keyring' = s.keyring
    /\ signers' = s.signers
    /\ events' = s.events

Ran(t, r) ==
    /\ Store(r.s)
    /\ tasks' = [tasks EXCEPT ![t] = r.l]
    /\ ret' = IF r.l.pc = "done"
              THEN Outcome("setSignerNetwork",
                           [NoArgs EXCEPT !.id = r.l.network.chainId, !.chain = r.l.chain], r.s)
              ELSE ret
    /\ UNCHANGED <<createdVault, seenIds, loggedOut, ops>>

\* the wallet is set up before any call is in flight
AsyncSetup ==
    /\ start = << >>
    /\ SetWalletPassword \/ ValidateSeed \/ CreateKeyringVault

\* setSignerNetwork(network, chain) is called
BeginSetSignerNetwork ==
    \E t \in Tasks, in \in SwitchInputs :
      /\ tasks[t].pc = "idle"
      /\ start' = IF start = << >> THEN <<Quiet>> ELSE start
      /\ Ran(t, beginSetSignerNetwork(Quiet, [Idle EXCEPT !.network = in[1], !.chain = in[2]]))

\* the remote call a task awaits answers
ResumeSetSignerNetwork ==
    \E t \in Tasks :
      /\ tasks[t].pc \notin {"idle", "done"}
      /\ UNCHANGED start
      /\ Ran(t, resumeSetSignerNetwork(Quiet, tasks[t]))

NextAsync ==
    \/ AsyncSetup
    \/ BeginSetSignerNetwork
    \/ ResumeSetSignerNetwork

SpecAsync == Init /\ [][NextAsync]_vars

-----------------------------------------------------------------------------
(* Claims.                                                                 *)

Persisted == <<vault, vaultKey, signersKey, keyring, signers>>

\* the step is a finished call of op
Called(op) == ret'.op = op

\* C1: login with a password that does not match the stored 'vault-key'
\* value returns an Error and leaves the wallet, the session password and the
\* 'vault', 'keyring' and 'signers-key' records as they were.
C1_LoginWrongPasswordChangesNothing ==
    [][(Called("login") /\ vaultKey # <<ret'.args.pwd>>)
        => (/\ ret'.kind = "error"
            /\ UNCHANGED <<wallet, aliasNets, _password, hd, main>>
            /\ UNCHANGED Persisted)]_vars

\* a login with a wrong password was made against a stored verification
\* value, while a session password was held
C1_Witness ==
    /\ ret.op = "login"
    /\ vaultKey # << >>
    /\ vaultKey # <<ret.args.pwd>>
    /\ _password # ""
    /\ DOMAIN wallet.accounts # {}

\* C2: after setWalletPassword(p) and createKeyringVault returned account A,
\* with only login and logout calls since, login(p) returns an account whose
\* id is A.id.
C2_LoginReturnsCreatedAccount ==
    (/\ ret.op = "login"
     /\ createdVault # << >>
     /\ ret.args.pwd = createdVault[1].pwd
     /\ ret.error # "ChainQueryError")
    => (ret.kind = "value" /\ ret.val.id = createdVault[1].id)

\* C3: after every completed operation, when wallet.accounts is not empty the
\* active account's id is a key of wallet.accounts and the entry under it is
\* the active account.
C3_ActiveAccountInDirectory ==
    (ret.kind # "throw" /\ DOMAIN wallet.accounts # {})
    => (/\ wallet.activeAccount.id \in DOMAIN wallet.accounts
        /\ wallet.accounts[wallet.activeAccount.id] = wallet.activeAccount)

\* C4: after every completed operation wallet.activeNetwork is the entry
\* networks[chain][chainId] of some chain family.
C4_ActiveNetworkInRegistry ==
    ret.kind # "throw"
    => \E c \in Chains :
         /\ wallet.activeNetwork.chainId \in DOMAIN wallet.networks[c]
         /\ wallet.networks[c][wallet.activeNetwork.chainId] = wallet.activeNetwork

\* C5: removeAccount(id) with id the id of the active account (an account
\* that is stored in wallet.accounts) fails with an error and leaves
\* wallet.accounts, the active account and the persisted records unchanged.
C5_RemoveActiveAccountFails ==
    [][(/\ Called("removeAccount")
        /\ ret'.args.id = wallet.activeAccount.id
        /\ wallet.activeAccount.id \in DOMAIN wallet.accounts)
        => (/\ ret'.kind \in {"error", "throw"}
            /\ UNCHANGED wallet
            /\ UNCHANGED Persisted)]_vars

\* C6: the id addNewAccount returns is the id of no account that existed in
\* wallet.accounts before and of no account addNewAccount returned before.
C6_NewAccountIdIsFresh ==
    [][(Called("addNewAccount") /\ ret'.kind = "value") => ret'.val.id \notin seenIds]_vars

\* C7: addNewAccount stores the account it returns in wallet.accounts under
\* its id, leaves the active account as it was and writes the resulting
\* wallet to the 'vault' record.
C7_AddNewAccountInsertsAndPersists ==
    [][(Called("addNewAccount") /\ ret'.kind = "value")
        => (/\ ret'.val.id \in DOMAIN wallet'.accounts
            /\ wallet'.accounts[ret'.val.id] = ret'.val
            /\ wallet'.activeAccount = wallet.activeAccount
            /\ vault' = <<JSONstringify(wallet')>>)]_vars

\* C8: setSignerNetwork leaves the address of every account that was in
\* wallet.accounts before the call as it was.
C8_SwitchKeepsAddresses ==
    [][(Called("setSignerNetwork") /\ ret'.kind = "value")
        => \A id \in DOMAIN wallet.accounts \cap DOMAIN wallet'.accounts :
             wallet'.accounts[id].address = wallet.accounts[id].address]_vars

\* forgetMainWallet performed its reset in this step
ResetDone == Called("forgetMainWallet") /\ ret'.kind = "void"

\* C9: once a wallet password is stored, forgetMainWallet(pwd) with a password
\* that does not match 'vault-key' returns an error and leaves the wallet, the
\* signers and the persisted records unchanged; with the matching password it
\* performs the reset.
C9_ForgetRequiresPassword ==
    [][(Called("forgetMainWallet") /\ vaultKey # << >>)
        => IF vaultKey = <<ret'.args.pwd>>
           THEN ResetDone /\ wallet'.accounts = << >>
           ELSE /\ ret'.kind = "error"
                /\ UNCHANGED <<wallet, hd, main>>
                /\ UNCHANGED Persisted]_vars

\* C10: when forgetMainWallet performs its reset, the 'vault' record holds no
\* account, the 'signers-key' record and the signers are cleared, the session
\* password is empty and the wallet is the default initial state, with the
\* full default network table.
C10_ForgetResetsToDefault ==
    [][ResetDone
        => (/\ JSONparse(vault'[1]).accounts = << >>
            /\ signersKey'.mnemonic = "null" /\ signersKey'.network = << >>
            /\ ~hd'.live /\ ~main'.live /\ signers' = "null"
            /\ _password' = ""
            /\ wallet' = initialWalletState(defaultNetworksState))]_vars

\* C11: logout completes without error, clears the session password, the hd and
\* main signers and the mnemonic of 'signers-key', leaves 'vault' unchanged, and
\* from then until the next successful login or createKeyringVault isUnlocked()
\* is false.
C11_LogoutLocks ==
    [][/\ Called("logout")
          => (/\ ret'.kind = "void"
              /\ _password' = "" /\ ~hd'.live /\ ~main'.live
              /\ signersKey'.mnemonic = ""
              /\ vault' = vault)
       /\ loggedOut' => ~isUnlocked(Quiet)']_vars

\* C12: checkPassword(pwd), for a matching and for a non-matching pwd, leaves
\* the session password, the wallet, the signers and every persisted record as
\* they were.
C12_CheckPasswordChangesNothing ==
    [][Called("checkPassword")
        => (/\ UNCHANGED <<_password, wallet, aliasNets, hd, main>>
            /\ UNCHANGED Persisted)]_vars

\* C13: when createKeyringVault returns, wallet.accounts holds exactly the
\* returned account, which is the active account, the active network is the
\* default Syscoin mainnet entry, a non-empty session password is held, the
\* wallet is what 'vault' stores and the keyring is unlocked.
C13_CreateVaultPostcondition ==
    (ret.op = "createKeyringVault" /\ ret.kind = "value")
    => (/\ DOMAIN wallet.accounts = {ret.val.id}
        /\ wallet.accounts[ret.val.id] = ret.val
        /\ wallet.activeAccount = ret.val
        /\ wallet.activeNetwork = SysMainnet
        /\ Truthy(_password)
        /\ vault = <<JSONstringify(wallet)>>
        /\ isUnlocked(Quiet))

\* the operations of the reconciliation invariant
Reconciled ==
    {"createKeyringVault", "login", "logout", "addNewAccount", "removeAccount",
     "removeNetwork", "setSignerNetwork", "forgetMainWallet"}

\* C14: once a vault is written, after every completed createKeyringVault,
\* login, logout, addNewAccount, removeAccount, removeNetwork, setSignerNetwork
\* and forgetMainWallet the wallet stored in 'vault', the wallet stored in
\* 'keyring' and the in-memory wallet are the same.
C14_VaultSnapshotWalletAgree ==
    (ret.op \in Reconciled /\ ret.kind # "throw" /\ vault # << >>)
    => (/\ JSONparse(vault[1]) = wallet
        /\ keyring.wallet = wallet)

\* C15: when the persist step of an operation fails, the operation reports a
\* failure to its caller, the in-memory wallet is what it was before the
\* operation, the 'keyring' snapshot is not written and no 'update' event is
\* emitted.
C15_PersistFailureRollsBack ==
    [][ret'.persistFailed
        => (/\ ret'.kind \in {"error", "throw"}
            /\ wallet' = wallet
            /\ keyring'.wallet = keyring.wallet
            /\ \A i \in DOMAIN events' : events'[i] # "update")]_vars

\* C16: when a new KeyringManager is constructed over storage whose 'vault'
\* holds accounts, login with the password of 'vault-key' leaves the in-memory
\* wallet with the accounts, the active account and the active network that
\* 'vault' holds.
C16_ColdStartLoadsVault ==
    [][(/\ Called("login")
        /\ ret.op = "KeyringManager"
        /\ vaultKey = <<ret'.args.pwd>>
        /\ vault # << >>
        /\ DOMAIN JSONparse(vault[1]).accounts # {})
        => (/\ wallet'.accounts = JSONparse(vault[1]).accounts
            /\ wallet'.activeAccount = JSONparse(vault[1]).activeAccount
            /\ wallet'.activeNetwork = JSONparse(vault[1]).activeNetwork)]_vars

\* C17: while a session password is held, the 'vault-key' record is not that
\* password in plaintext.
C17_NoPlaintextPassword ==
    Truthy(_password) => vaultKey # <<_password>>

\* the accounts stored in the 'vault' record
VaultAccounts == IF vault = << >> THEN << >> ELSE JSONparse(vault[1]).accounts

\* C18: the xprv of every account stored in 'vault' or in 'keyring' is
\* ciphertext.
C18_StoredXprvIsCiphertext ==
    /\ \A id \in DOMAIN VaultAccounts : VaultAccounts[id].xprv.enc
    /\ \A id \in DOMAIN keyring.wallet.accounts : keyring.wallet.accounts[id].xprv.enc

\* C19: login with the password of 'vault-key' does not fail with the error of
\* the chain indexer.
C19_LoginSurvivesIndexerFailure ==
    [][(Called("login") /\ vaultKey = <<ret'.args.pwd>>)
        => ret'.error # "ChainQueryError"]_vars

\* what two calls leave behind: the wallet and the persisted records
Left(s) == <<s.wallet, s.vault, s.signersKey, s.keyring>>

\* the state a call starts from, given the state the previous one ended in
Again(s) == [s EXCEPT !.events = << >>, !.thrown = "", !.out = "void",
                      !.val = initialActiveAccountState, !.persistError = FALSE]

\* the two calls of tasks a and b run one after the other from state s
Serial(s, a, b) ==
    setSignerNetwork(Again(setSignerNetwork(s, tasks[a].network, tasks[a].chain)),
                     tasks[b].network, tasks[b].chain)

\* C20: when two setSignerNetwork calls whose awaits interleaved have both
\* finished, the wallet and the persisted records are what running the two
\* calls one after the other, in one of the two orders, leaves behind.
C20_InterleavingIsSerializable ==
    (\A t \in Tasks : tasks[t].pc = "done")
    => \/ Left(Quiet) = Left(Serial(start[1], 1, 2))
       \/ Left(Quiet) = Left(Serial(start[1], 2, 1))

\* C21: a setSignerNetwork(network, chain) that returns leaves every network
\* entry that was in the registry before the call, other than the one under
\* networks[chain][network.chainId], present and unchanged.
C21_SwitchKeepsOtherNetworks ==
    [][(Called("setSignerNetwork") /\ ret'.kind = "value")
        => \A c \in Chains : \A id \in DOMAIN wallet.networks[c] :
             (c # ret'.args.chain \/ id # ret'.args.id)
             => (/\ id \in DOMAIN wallet'.networks[c]
                 /\ wallet'.networks[c][id] = wallet.networks[c][id])]_vars

\* the operations after which 'signers-key' is to name the active network
Bootstrapped ==
    {"KeyringManager", "createKeyringVault", "login", "logout", "setSignerNetwork",
     "forgetMainWallet"}

\* C22: after construction and after every completed createKeyringVault, login,
\* logout, setSignerNetwork and forgetMainWallet the network of the
\* 'signers-key' record is wallet.activeNetwork.
C22_SignersKeyNetworkIsActive ==
    (ret.op \in Bootstrapped /\ ret.kind # "throw")
    => signersKey.network = <<wallet.activeNetwork>>

====
